---- MODULE Spec2Model ----
(***************************************************************************)
(* Model of the voice-activated-servo generic service                      *)
(* (src/src/models/service.py): validate_config, reconfigure and           *)
(* do_command of class Service.                                            *)
(*                                                                         *)
(* Strings are sequences of one-character strings.  A raw angle is a       *)
(* protobuf number_value (a real); it is represented in tenths, so 1799    *)
(* stands for 179.9 and -10 for -1.0.  The command table (a Python dict,   *)
(* which keeps insertion order) is a sequence of entries                   *)
(* [phrase, angles] with pairwise distinct phrases.                        *)
(***************************************************************************)
EXTENDS Integers, Sequences, FiniteSets, TLC

VARIABLES
    speech_service,  \* self.speech_service: name of the bound resource, or Unset
    servo,           \* self.servo: name of the bound resource, or Unset
    commands,        \* self.commands: the held command table
    config,          \* the configuration of the last reconfigure
    cfgIn,           \* the raw configuration handed to validate_config
    validation,      \* what validate_config returned or raised for cfgIn
    call,            \* per caller: the do_command coroutine (position, locals, result)
    actuatorLog,     \* every move issued to the servo, in order: [caller, angle]
    nCalls,          \* do_command requests made so far
    nReconf          \* reconfigurations made so far

svcVars == <<speech_service, servo, commands, config>>
cfgVars == <<cfgIn, validation>>
runVars == <<call, actuatorLog, nCalls>>
vars == <<speech_service, servo, commands, config, cfgIn, validation,
          call, actuatorLog, nCalls, nReconf>>

(***************************************************************************)
(* Bounds and program constants                                            *)
(***************************************************************************)
MaxAngles == 2          \* longest angle list of a raw configuration
MaxCalls == 2           \* do_command requests in one behaviour
MaxReconfigs == 1       \* reconfigurations after construction in one behaviour

AngleMin == 0           \* lower end of the accepted range (degrees)
AngleMax == 180         \* upper end of the accepted range (degrees)
Number == 1             \* get_commands(number=1)
SleepSeconds == 1       \* asyncio.sleep(1)

Unset == "<unset>"      \* an attribute that was never assigned

(***************************************************************************)
(* Strings                                                                 *)
(***************************************************************************)
SeqsUpTo(S, n) == UNION {[1..k -> S] : k \in 0..n}

\* str.lower() of one character of the model's alphabet
LowerChar(c) ==
    CASE c = "A" -> "a"
      [] c = "B" -> "b"
      [] OTHER -> c

\* str.lower()
Lower(s) == [i \in 1..Len(s) |-> LowerChar(s[i])]

\* Python's  p in t  for strings: p occurs in t as a contiguous substring
Contains(t, p) ==
    \E k \in 0..(Len(t) - Len(p)) : SubSeq(t, k + 1, k + Len(p)) = p

(***************************************************************************)
(* Raw configurations (ComponentConfig.attributes)                         *)
(***************************************************************************)
ConfigKeys == {"speech_service", "servo", "commands"}

ResourceNames == {"mic", "mic2", "arm"}

\* raw number_values, in tenths: -1.0, 0.9, 179.9, 180.0, 180.9
RawAngles == {-10, 9, 1799, 1800, 1809}

ConfigPhrases == {<<>>, <<"a">>}

RawEntries == [phrase : ConfigPhrases, angles : SeqsUpTo(RawAngles, MaxAngles)]

\* a struct is a map: no phrase occurs twice
RawTables ==
    {t \in SeqsUpTo(RawEntries, Cardinality(ConfigPhrases)) :
        \A i, j \in 1..Len(t) : t[i].phrase = t[j].phrase => i = j}

RawConfigs ==
    [fields : SUBSET ConfigKeys,
     speech_service : {"mic", "mic2"},
     servo : {"arm"},
     commands : RawTables]

DepSets == SUBSET ResourceNames

(***************************************************************************)
(* validate_config                                                         *)
(***************************************************************************)
Raise(msg) == [ok |-> FALSE, error |-> msg, required |-> <<>>, optional |-> <<>>]

Return(required, optional) ==
    [ok |-> TRUE, error |-> "", required |-> required, optional |-> optional]

\* variant: 180 itself is refused
InRangeExclusive(angle) == AngleMin * 10 <= angle /\ angle < AngleMax * 10

\* variant: the lower end is not checked
InRangeNoLower(angle) == angle <= AngleMax * 10

\* variant: the upper end is not checked
InRangeNoUpper(angle) == AngleMin * 10 <= angle

\* line 83: 0 <= angle <= 180 on the raw number_value
InRange(angle) == AngleMin * 10 <= angle /\ angle <= AngleMax * 10

\* lines 78-84 for one phrase: the error it raises, or "" when it passes
EntryError(e) ==
    IF e.angles = <<>> THEN "command angles cannot be empty"
    ELSE IF \E k \in 1..Len(e.angles) : ~InRange(e.angles[k])
         THEN "command angles must be integers between 0 and 180"
         ELSE ""

validate_config(cfg) ==
    IF "speech_service" \notin cfg.fields THEN Raise("speech_service is required")
    ELSE IF "servo" \notin cfg.fields THEN Raise("servo is required")
    ELSE IF "commands" \notin cfg.fields THEN Raise("commands is required")
    ELSE LET bad == {i \in 1..Len(cfg.commands) : EntryError(cfg.commands[i]) # ""}
         IN  IF bad # {}
             THEN LET first == CHOOSE i \in bad : \A j \in bad : i <= j
                  IN  Raise(EntryError(cfg.commands[first]))
             ELSE Return(<<cfg.speech_service, cfg.servo>>, <<>>)

(***************************************************************************)
(* do_command: data                                                        *)
(***************************************************************************)
Callers == {1, 2}
\* the caller of the service whose requests come one after the other
Sequential == {1}

PyNone == <<"None">>        \* Python's None as an element of the returned list

\* what the speech service may hold: "", None, "aB", "A", "b"
Utterances == {<<>>, PyNone, <<"a", "B">>, <<"A">>, <<"b">>}

\* get_commands returns up to `number` utterances; a service that returns one
\* more than asked is allowed for as well
Replies == SeqsUpTo(Utterances, Number + 1)

\* positions at which the coroutine is suspended
InFlight == {"await_speech", "await_move", "sleep"}
\* ... of these, the ones inside the for-loop over self.commands.keys()
Looping == {"await_move", "sleep"}

NoResponse == [pending |-> TRUE]
PyNoneResponse == [none |-> TRUE]       \* the function fell off its end

no_command_heard == "no voice command heard"
commands_heard == "voice commands heard"
no_commands_matched == "no voice commands heard"

IdleCall ==
    [pc |-> "idle", listen |-> FALSE, commands_from_queue |-> <<>>,
     heard_text |-> <<>>, keys |-> <<>>, k |-> 0, angles |-> <<>>, a |-> 0,
     commands_heard |-> <<>>, response |-> NoResponse, error |-> "",
     table0 |-> <<>>, raced |-> FALSE, trace |-> <<>>, failed_at |-> 0, log0 |-> 0]

\* Fields of a call that are not locals of do_command but records of what
\* happened: table0 (self.commands when the for-loop began), raced (reconfigure
\* ran while the call was suspended inside the loop), trace (the steps taken),
\* failed_at (length of trace when a move raised, else 0), log0 (length of
\* actuatorLog when the request arrived).

\* what a call did, in order (observability only)
Event(op, phrase, arg, on) == [op |-> op, phrase |-> phrase, arg |-> arg, on |-> on]

\* variant: the phrases are visited last to first
KeysReversed(table) == [i \in 1..Len(table) |-> table[Len(table) + 1 - i].phrase]

\* dict operations on a command table
Keys(table) == [i \in 1..Len(table) |-> table[i].phrase]
HasKey(table, phrase) == \E i \in 1..Len(table) : table[i].phrase = phrase
Lookup(table, phrase) ==
    table[CHOOSE i \in 1..Len(table) : table[i].phrase = phrase].angles

\* variant: the last element of the list is taken
LastCommand(commands_from_queue) == commands_from_queue[Len(commands_from_queue)]

\* line 144: heard_text = commands_from_queue[0]
FirstCommand(commands_from_queue) == commands_from_queue[1]

\* variant: only None is taken for "nothing heard"
IsBlankNoneOnly(heard_text) == heard_text = PyNone

\* line 146: heard_text in [None, ""]
IsBlank(heard_text) == heard_text \in {PyNone, <<>>}

\* variant: the comparison is case-sensitive
MatchesCaseSensitive(heard_text, phrase) == Contains(heard_text, phrase)

\* variant: text and phrase are swapped
MatchesSwapped(heard_text, phrase) == Contains(Lower(phrase), Lower(heard_text))

\* line 151: phrase.lower() in heard_text.lower()
Matches(heard_text, phrase) == Contains(Lower(heard_text), Lower(phrase))

(***************************************************************************)
(* do_command: the for-loop, run from one suspension to the next           *)
(***************************************************************************)
\* Lines 150-161 from phrase number `from` on, up to the next servo.move,
\* the return or a KeyError.  self.commands is read anew at line 152.
RECURSIVE RunLoop(_, _, _)
RunLoop(c, from, table) ==
    IF from > Len(c.keys)
    THEN [c EXCEPT !.pc = "done", !.k = from,
                   !.response =
                       IF Len(c.commands_heard) > 0
                       THEN [status |-> commands_heard,
                             voice_commands |-> c.commands_heard,
                             heard |-> c.heard_text]
                       ELSE [status |-> no_commands_matched,
                             heard |-> c.heard_text]]
    ELSE LET phrase == c.keys[from]
             tested == [c EXCEPT !.k = from,
                                 !.trace = Append(@, Event("test", phrase, 0, ""))]
         IN  IF ~Matches(c.heard_text, phrase) THEN RunLoop(tested, from + 1, table)
             ELSE IF ~HasKey(table, phrase)
             THEN [tested EXCEPT !.pc = "failed", !.error = "KeyError"]
             ELSE LET angles == Lookup(table, phrase)
                  IN  IF angles = <<>>
                      THEN RunLoop([tested EXCEPT !.angles = angles, !.a = 0,
                                       !.commands_heard = Append(@, phrase)],
                                   from + 1, table)
                      ELSE [tested EXCEPT !.pc = "move", !.angles = angles, !.a = 1]

\* variant: every move of a phrase goes to its first angle
CallMoveFirstAngle(c, handle) ==
    IF c.pc # "move" THEN c
    ELSE IF handle = Unset
    THEN [c EXCEPT !.pc = "failed", !.error = "AttributeError"]
    ELSE [c EXCEPT !.pc = "await_move",
                   !.trace = Append(@, Event("move", c.keys[c.k], c.angles[1], handle))]

\* line 154: self.servo.move(angle) is called and awaited
CallMove(c, handle) ==
    IF c.pc # "move" THEN c
    ELSE IF handle = Unset
    THEN [c EXCEPT !.pc = "failed", !.error = "AttributeError"]
    ELSE [c EXCEPT !.pc = "await_move",
                   !.trace = Append(@, Event("move", c.keys[c.k], c.angles[c.a], handle))]

\* the servo sees the move the call has just issued, if it issued one
Issued(log, d, c) ==
    IF c.pc = "await_move"
    THEN Append(log, [caller |-> d, angle |-> c.angles[c.a]])
    ELSE log

(***************************************************************************)
(* do_command: the steps of one call                                       *)
(***************************************************************************)
\* variant: a request that follows a failed move takes the sequence up again
DoCommandRetries(d, listen) ==
    /\ call[d].pc \notin InFlight
    /\ nCalls < MaxCalls
    /\ nCalls' = nCalls + 1
    /\ IF call[d].failed_at > 0
       THEN /\ call' = [call EXCEPT ![d] =
                   [@ EXCEPT !.pc = "await_move", !.error = "", !.failed_at = 0]]
            /\ actuatorLog' = Append(actuatorLog,
                   [caller |-> d, angle |-> call[d].angles[call[d].a]])
       ELSE /\ call' = [call EXCEPT ![d] =
                   IF ~listen
                   THEN [IdleCall EXCEPT !.pc = "done", !.response = PyNoneResponse,
                                         !.log0 = Len(actuatorLog)]
                   ELSE IF speech_service = Unset
                   THEN [IdleCall EXCEPT !.pc = "failed", !.listen = TRUE,
                                         !.error = "AttributeError",
                                         !.log0 = Len(actuatorLog)]
                   ELSE [IdleCall EXCEPT !.pc = "await_speech", !.listen = TRUE,
                            !.log0 = Len(actuatorLog),
                            !.trace = <<Event("get_commands", <<>>, Number,
                                              speech_service)>>]]
            /\ UNCHANGED actuatorLog
    /\ UNCHANGED <<svcVars, cfgVars, nReconf>>

\* variant: the flag of the request is not looked at
DoCommandAlwaysListens(d, listen) ==
    /\ call[d].pc \notin InFlight
    /\ nCalls < MaxCalls
    /\ nCalls' = nCalls + 1
    /\ call' = [call EXCEPT ![d] =
           IF speech_service = Unset
           THEN [IdleCall EXCEPT !.pc = "failed", !.listen = listen,
                                 !.error = "AttributeError",
                                 !.log0 = Len(actuatorLog)]
           ELSE [IdleCall EXCEPT !.pc = "await_speech", !.listen = listen,
                    !.log0 = Len(actuatorLog),
                    !.trace = <<Event("get_commands", <<>>, Number, speech_service)>>]]
    /\ UNCHANGED <<svcVars, cfgVars, actuatorLog, nReconf>>

\* lines 136-139: the request arrives; with the flag set, get_commands is called
DoCommand(d, listen) ==
    /\ call[d].pc \notin InFlight
    /\ nCalls < MaxCalls
    /\ nCalls' = nCalls + 1
    /\ call' = [call EXCEPT ![d] =
           IF ~listen
           THEN [IdleCall EXCEPT !.pc = "done", !.response = PyNoneResponse,
                                 !.log0 = Len(actuatorLog)]
           ELSE IF speech_service = Unset
           THEN [IdleCall EXCEPT !.pc = "failed", !.listen = TRUE,
                                 !.error = "AttributeError",
                                 !.log0 = Len(actuatorLog)]
           ELSE [IdleCall EXCEPT !.pc = "await_speech", !.listen = TRUE,
                    !.log0 = Len(actuatorLog),
                    !.trace = <<Event("get_commands", <<>>, Number, speech_service)>>]]
    /\ UNCHANGED <<svcVars, cfgVars, actuatorLog, nReconf>>

\* lines 139-161: get_commands returns `reply`
SpeechReply(d, reply) ==
    /\ call[d].pc = "await_speech"
    /\ LET got == [call[d] EXCEPT !.commands_from_queue = reply]
           next ==
               IF Len(reply) = 0
               THEN [got EXCEPT !.pc = "done",
                                !.response = [status |-> no_command_heard]]
               ELSE IF IsBlank(FirstCommand(reply))
               THEN [got EXCEPT !.pc = "done", !.heard_text = FirstCommand(reply),
                                !.response = [status |-> no_command_heard]]
               ELSE CallMove(RunLoop([got EXCEPT !.heard_text = FirstCommand(reply),
                                                 !.keys = Keys(commands),
                                                 !.table0 = commands],
                                     1, commands),
                             servo)
       IN  /\ call' = [call EXCEPT ![d] = next]
           /\ actuatorLog' = Issued(actuatorLog, d, next)
    /\ UNCHANGED <<svcVars, cfgVars, nCalls, nReconf>>

\* variant: a failed move is swallowed and the sequence goes on
MoveReplySwallowed(d, ok) ==
    /\ call[d].pc = "await_move"
    /\ call' = [call EXCEPT ![d] =
           IF ok THEN [@ EXCEPT !.pc = "sleep"]
           ELSE [@ EXCEPT !.pc = "sleep", !.failed_at = Len(call[d].trace)]]
    /\ UNCHANGED <<svcVars, cfgVars, actuatorLog, nCalls, nReconf>>

\* variant: the next move follows a successful one without the delay
MoveReplyNoDelay(d, ok) ==
    /\ call[d].pc = "await_move"
    /\ LET c == call[d]
           next ==
               IF ~ok
               THEN [c EXCEPT !.pc = "failed", !.error = "ActuatorError",
                              !.failed_at = Len(c.trace)]
               ELSE IF c.a < Len(c.angles)
               THEN CallMove([c EXCEPT !.pc = "move", !.a = c.a + 1], servo)
               ELSE CallMove(RunLoop([c EXCEPT !.commands_heard =
                                                    Append(@, c.keys[c.k])],
                                     c.k + 1, commands),
                             servo)
       IN  /\ call' = [call EXCEPT ![d] = next]
           /\ actuatorLog' = Issued(actuatorLog, d, next)
    /\ UNCHANGED <<svcVars, cfgVars, nCalls, nReconf>>

\* line 154: the awaited move returns, or raises
MoveReply(d, ok) ==
    /\ call[d].pc = "await_move"
    /\ call' = [call EXCEPT ![d] =
           IF ok THEN [@ EXCEPT !.pc = "sleep"]
           ELSE [@ EXCEPT !.pc = "failed", !.error = "ActuatorError",
                          !.failed_at = Len(call[d].trace)]]
    /\ UNCHANGED <<svcVars, cfgVars, actuatorLog, nCalls, nReconf>>

\* variant: the inner loop does not advance; the same angle is moved to again
SleepDoneNoAdvance(d) ==
    /\ call[d].pc = "sleep"
    /\ LET c == [call[d] EXCEPT
                    !.trace = Append(@, Event("sleep", <<>>, SleepSeconds, ""))]
           next == CallMove([c EXCEPT !.pc = "move"], servo)
       IN  /\ call' = [call EXCEPT ![d] = next]
           /\ actuatorLog' = Issued(actuatorLog, d, next)
    /\ UNCHANGED <<svcVars, cfgVars, nCalls, nReconf>>

\* variant: a sequence goes on only while no other call is inside its loop
SleepDoneExclusive(d) ==
    /\ call[d].pc = "sleep"
    /\ \A e \in DOMAIN call : e # d => call[e].pc \notin Looping
    /\ LET c == [call[d] EXCEPT
                    !.trace = Append(@, Event("sleep", <<>>, SleepSeconds, ""))]
           next ==
               IF c.a < Len(c.angles)
               THEN CallMove([c EXCEPT !.pc = "move", !.a = c.a + 1], servo)
               ELSE CallMove(RunLoop([c EXCEPT !.commands_heard =
                                                    Append(@, c.keys[c.k])],
                                     c.k + 1, commands),
                             servo)
       IN  /\ call' = [call EXCEPT ![d] = next]
           /\ actuatorLog' = Issued(actuatorLog, d, next)
    /\ UNCHANGED <<svcVars, cfgVars, nCalls, nReconf>>

\* lines 155-161: the sleep is over; next angle, or line 157 and the next phrase
SleepDone(d) ==
    /\ call[d].pc = "sleep"
    /\ LET c == [call[d] EXCEPT
                    !.trace = Append(@, Event("sleep", <<>>, SleepSeconds, ""))]
           next ==
               IF c.a < Len(c.angles)
               THEN CallMove([c EXCEPT !.pc = "move", !.a = c.a + 1], servo)
               ELSE CallMove(RunLoop([c EXCEPT !.commands_heard =
                                                    Append(@, c.keys[c.k])],
                                     c.k + 1, commands),
                             servo)
       IN  /\ call' = [call EXCEPT ![d] = next]
           /\ actuatorLog' = Issued(actuatorLog, d, next)
    /\ UNCHANGED <<svcVars, cfgVars, nCalls, nReconf>>

(***************************************************************************)
(* reconfigure                                                             *)
(***************************************************************************)
\* variant: the value is rounded to the nearest integer
ToIntRounded(angle) == (angle + 5) \div 10

\* int(number_value): truncation toward zero
ToInt(angle) == IF angle >= 0 THEN angle \div 10 ELSE -((-angle) \div 10)

\* lines 105-111: the attribute after the loop over the dependencies
Resolve(old, name, deps) == IF name \in deps THEN name ELSE old

\* lines 114-121
ParseCommands(cfg) ==
    [i \in 1..Len(cfg.commands) |->
        [phrase |-> cfg.commands[i].phrase,
         angles |-> [k \in 1..Len(cfg.commands[i].angles) |->
                        ToInt(cfg.commands[i].angles[k])]]]

\* The host calls reconfigure only with a configuration validate_config accepted.
Reconfigure(cfg, deps) ==
    /\ validate_config(cfg).ok
    /\ speech_service' = Resolve(speech_service, cfg.speech_service, deps)
    /\ servo' = Resolve(servo, cfg.servo, deps)
    /\ commands' = ParseCommands(cfg)
    /\ config' = cfg
    /\ call' = [d \in DOMAIN call |->
                  IF call[d].pc \in Looping THEN [call[d] EXCEPT !.raced = TRUE]
                  ELSE call[d]]
    /\ UNCHANGED <<cfgVars, actuatorLog, nCalls>>

(***************************************************************************)
(* validate_config and reconfigure as functions of their inputs            *)
(***************************************************************************)
NoValidation == [ok |-> FALSE, error |-> "not validated", required |-> <<>>, optional |-> <<>>]

BaseConfig ==
    [fields |-> ConfigKeys, speech_service |-> "mic", servo |-> "arm",
     commands |-> <<[phrase |-> <<"a">>, angles |-> <<1800>>]>>]

ValidateConfig ==
    /\ validation = NoValidation
    /\ validation' = validate_config(cfgIn)
    /\ UNCHANGED <<svcVars, cfgIn, runVars, nReconf>>

ReconfigureValidated ==
    /\ validation.ok
    /\ nReconf < MaxReconfigs + 1
    /\ nReconf' = nReconf + 1
    /\ \E deps \in DepSets : Reconfigure(cfgIn, deps)

\* The service was constructed from BaseConfig, with all of its dependencies
\* resolved or with none of them.
InitConfig ==
    /\ cfgIn \in RawConfigs
    /\ validation = NoValidation
    /\ \E deps \in {ResourceNames, {}} :
          /\ speech_service = Resolve(Unset, BaseConfig.speech_service, deps)
          /\ servo = Resolve(Unset, BaseConfig.servo, deps)
    /\ commands = ParseCommands(BaseConfig)
    /\ config = BaseConfig
    /\ call = [d \in Callers |-> IdleCall]
    /\ actuatorLog = <<>>
    /\ nCalls = 0
    /\ nReconf = 0

NextConfig == ValidateConfig \/ ReconfigureValidated

SpecConfig == InitConfig /\ [][NextConfig]_vars

(***************************************************************************)
(* The service in its host                                                 *)
(***************************************************************************)
Table1 == <<[phrase |-> <<"a">>, angles |-> <<100>>],
            [phrase |-> <<"A", "b">>, angles |-> <<200, 305>>]>>
Table2 == <<[phrase |-> <<"A", "b">>, angles |-> <<9, 1799>>],
            [phrase |-> <<"a">>, angles |-> <<9, 1799>>]>>
Table3 == <<[phrase |-> <<"a">>, angles |-> <<1800>>]>>
Table4 == <<[phrase |-> <<"a">>, angles |-> <<100, 1809>>]>>
Table5 == <<[phrase |-> <<"a">>, angles |-> <<100, 1810>>]>>

ServiceConfigs ==
    [fields : {ConfigKeys}, speech_service : {"mic"}, servo : {"arm"},
     commands : {Table1, Table2, Table3, Table4, Table5}]

\* the host resolves the required dependencies validate_config returned
HostDeps(cfg) ==
    {deps \in DepSets :
        \A i \in 1..Len(validate_config(cfg).required) :
            validate_config(cfg).required[i] \in deps}

HostReconfigure ==
    /\ nReconf < MaxReconfigs
    /\ nReconf' = nReconf + 1
    /\ \E cfg \in ServiceConfigs : \E deps \in HostDeps(cfg) : Reconfigure(cfg, deps)

Init ==
    /\ \E cfg \in ServiceConfigs : \E deps \in HostDeps(cfg) :
          /\ validate_config(cfg).ok
          /\ speech_service = Resolve(Unset, cfg.speech_service, deps)
          /\ servo = Resolve(Unset, cfg.servo, deps)
          /\ commands = ParseCommands(cfg)
          /\ config = cfg
    /\ cfgIn = BaseConfig
    /\ validation = NoValidation
    /\ call = [d \in Callers |-> IdleCall]
    /\ actuatorLog = <<>>
    /\ nCalls = 0
    /\ nReconf = 0

Next ==
    \/ HostReconfigure
    \/ \E d \in Sequential : \E listen \in BOOLEAN : DoCommand(d, listen)
    \/ \E d \in Sequential : \E reply \in Replies : SpeechReply(d, reply)
    \/ \E d \in Sequential : \E ok \in BOOLEAN : MoveReply(d, ok)
    \/ \E d \in Sequential : SleepDone(d)

Spec == Init /\ [][Next]_vars

(***************************************************************************)
(* The service with collaborators that answer: get_commands and servo.move *)
(* return or raise in the end, and the event loop resumes a call whose     *)
(* sleep is over.  Nothing is assumed about when the host sends requests   *)
(* or reconfigures.                                                        *)
(***************************************************************************)
Responsive ==
    \A d \in Sequential :
        /\ WF_vars(\E reply \in Replies : SpeechReply(d, reply))
        /\ WF_vars(\E ok \in BOOLEAN : MoveReply(d, ok))
        /\ WF_vars(SleepDone(d))

SpecLive == Spec /\ Responsive

(***************************************************************************)
(* Several callers at once: do_command is a coroutine, and the event loop  *)
(* runs the calls of different callers interleaved at their awaits.  Each  *)
(* caller makes one request and its moves succeed; requests that follow    *)
(* one another, and moves that fail, are in Spec.                          *)
(***************************************************************************)
\* what get_commands returns to concurrent callers: [] or ["aB"]
ConcurrentReplies == {<<>>, <<<<"a", "B">>>>}

NextConcurrent ==
    \/ HostReconfigure
    \/ \E d \in Callers : \E listen \in BOOLEAN :
          call[d].pc = "idle" /\ DoCommand(d, listen)
    \/ \E d \in Callers : \E reply \in ConcurrentReplies : SpeechReply(d, reply)
    \/ \E d \in Callers : MoveReply(d, TRUE)
    \/ \E d \in Callers : SleepDone(d)

SpecConcurrent == Init /\ [][NextConcurrent]_vars

(***************************************************************************)
(* Properties                                                              *)
(***************************************************************************)
IsPrefix(s, t) == Len(s) <= Len(t) /\ SubSeq(t, 1, Len(s)) = s

\* the same letter, whatever its case
SameLetter(x, y) == x = y \/ {x, y} = {"a", "A"} \/ {x, y} = {"b", "B"}

\* the phrase occurs in the text, case-insensitively
OccursIn(phrase, text) ==
    \E k \in 0..(Len(text) - Len(phrase)) :
        \A i \in 1..Len(phrase) : SameLetter(phrase[i], text[k + i])

\* the phrases of a table that occur in the text, in table order
ExpectedMatches(text, table) ==
    LET phrases == [i \in 1..Len(table) |-> table[i].phrase]
        Hit(p) == OccursIn(p, text)
    IN  SelectSeq(phrases, Hit)

\* the angle sequences of those phrases, one after the other
RECURSIVE ExpectedMoves(_, _)
ExpectedMoves(text, table) ==
    IF table = <<>> THEN <<>>
    ELSE (IF OccursIn(Head(table).phrase, text) THEN Head(table).angles ELSE <<>>)
         \o ExpectedMoves(text, Tail(table))

\* the angles a call passed to servo.move, in order
MovesOf(trace) ==
    LET IsMove(e) == e.op = "move"
        moves == SelectSeq(trace, IsMove)
    IN  [i \in 1..Len(moves) |-> moves[i].arg]

\* the angles the servo received since the call of caller d began
LogSince(d) ==
    [i \in 1..(Len(actuatorLog) - call[d].log0) |-> actuatorLog[call[d].log0 + i].angle]

\* the call has received a non-blank utterance
HeardSomething(c) ==
    /\ c.listen
    /\ c.pc \in Looping \cup {"done", "failed"}
    /\ Len(c.commands_from_queue) > 0
    /\ c.commands_from_queue[1] \notin {PyNone, <<>>}

\* the call has received nothing, or a blank utterance
HeardNothing(c) ==
    /\ c.listen
    /\ c.pc \in Looping \cup {"done", "failed"}
    /\ c.error # "AttributeError"
    /\ (Len(c.commands_from_queue) = 0 \/ c.commands_from_queue[1] \in {PyNone, <<>>})

\* the tables held after a reconfiguration with Table1 and with Table2
Held1 == <<[phrase |-> <<"a">>, angles |-> <<10>>],
           [phrase |-> <<"A", "b">>, angles |-> <<20, 30>>]>>
Held2 == <<[phrase |-> <<"A", "b">>, angles |-> <<0, 179>>],
           [phrase |-> <<"a">>, angles |-> <<0, 179>>]>>

\* C1: in a dispatch that heard a non-blank text (and during whose loop the
\* table was not replaced) the angles passed to servo.move are a prefix of the
\* concatenation, in table order, of the angle sequences of all matching
\* phrases, and the whole of it once the dispatch has returned; the servo
\* received exactly these moves.
C1_MovesAreConcatenation ==
    \A d \in Callers :
        LET c == call[d]
            want == ExpectedMoves(c.commands_from_queue[1], c.table0)
        IN  (HeardSomething(c) /\ ~c.raced) =>
                /\ LogSince(d) = MovesOf(c.trace)
                /\ IsPrefix(MovesOf(c.trace), want)
                /\ (c.pc = "done" => MovesOf(c.trace) = want)

\* two matching phrases with the same angle sequence: it is replayed for each
C1_Witness ==
    \E d \in Callers :
        /\ call[d].pc = "done"
        /\ ~call[d].raced
        /\ call[d].table0 = Held2
        /\ call[d].commands_heard = <<<<"A", "b">>, <<"a">>>>
        /\ LogSince(d) = <<0, 179, 0, 179>>

\* C2: when a move fails, the dispatch ends there with the failure and no
\* outcome: nothing is issued after the failed move, and the moves issued
\* before it stay issued.
C2_FailureStopsSequence ==
    \A d \in Callers :
        LET c == call[d]
        IN  c.failed_at > 0 =>
                /\ c.pc = "failed"
                /\ c.error = "ActuatorError"
                /\ c.response = NoResponse
                /\ Len(c.trace) = c.failed_at
                /\ c.trace[c.failed_at].op = "move"
                /\ LogSince(d) = MovesOf(c.trace)

\* table {a: [10], Ab: [20, 30]}: the move to 20 fails, 30 is never issued
C2_Witness ==
    \E d \in Callers :
        /\ call[d].failed_at > 0
        /\ call[d].table0 = Held1
        /\ ExpectedMoves(call[d].heard_text, call[d].table0) = <<10, 20, 30>>
        /\ LogSince(d) = <<10, 20>>

\* C3: when get_commands returns an empty list, or a list whose first element
\* is "" or None, the dispatch returns "no voice command heard" at once: no
\* phrase is tested and no move is issued.
C3_NothingHeard ==
    \A d \in Callers :
        LET c == call[d]
        IN  HeardNothing(c) =>
                /\ c.pc = "done"
                /\ c.response = [status |-> no_command_heard]
                /\ Len(c.trace) = 1
                /\ c.trace[1].op = "get_commands"
                /\ LogSince(d) = <<>>

\* the first element is "", the second would have matched
C3_Witness ==
    \E d \in Callers :
        /\ call[d].pc = "done"
        /\ call[d].commands_from_queue = <<<<>>, <<"a", "B">>>>
        /\ commands # <<>>
        /\ call[d].response = [status |-> no_command_heard]

\* C4: a dispatch that heard a non-blank text and returned, returned "voice
\* commands heard" exactly when some phrase of the table occurs in the text
\* case-insensitively; voice_commands then lists exactly those phrases, each
\* once, in table order, and heard is the raw text.  It fails to return only
\* when a move failed (or the table was replaced during its loop).
C4_HeardIffMatch ==
    \A d \in Callers :
        LET c == call[d]
            text == c.commands_from_queue[1]
            want == ExpectedMatches(text, c.table0)
        IN  /\ (HeardSomething(c) /\ c.pc = "done") =>
                  /\ c.response.status = commands_heard <=> want # <<>>
                  /\ want # <<>> =>
                        c.response = [status |-> commands_heard,
                                      voice_commands |-> want,
                                      heard |-> text]
            /\ (HeardSomething(c) /\ c.pc = "failed" /\ ~c.raced) => c.failed_at > 0

\* "aB" is heard with table {a, Ab}: both overlapping phrases are returned
C4_Witness ==
    \E d \in Callers :
        /\ call[d].pc = "done"
        /\ call[d].table0 = Held1
        /\ call[d].response = [status |-> commands_heard,
                               voice_commands |-> <<<<"a">>, <<"A", "b">>>>,
                               heard |-> <<"a", "B">>]

\* C5 as stated: with a non-blank text that no phrase matches, no move is
\* issued and the outcome carries the heard text and an empty list of matched
\* phrases.
C5_Original ==
    \A d \in Callers :
        LET c == call[d]
            text == c.commands_from_queue[1]
        IN  (HeardSomething(c) /\ ExpectedMatches(text, c.table0) = <<>>) =>
                /\ c.pc = "done"
                /\ LogSince(d) = <<>>
                /\ c.response.status = no_commands_matched
                /\ c.response.heard = text
                /\ "voice_commands" \in DOMAIN c.response
                /\ c.response.voice_commands = <<>>

\* C5 as amended: ... the response carries the status and the heard text and
\* has no voice_commands entry at all.
C5_NoMatch ==
    \A d \in Callers :
        LET c == call[d]
            text == c.commands_from_queue[1]
        IN  (HeardSomething(c) /\ ExpectedMatches(text, c.table0) = <<>>) =>
                /\ c.pc = "done"
                /\ LogSince(d) = <<>>
                /\ MovesOf(c.trace) = <<>>
                /\ c.commands_heard = <<>>
                /\ c.response = [status |-> no_commands_matched, heard |-> text]

\* "b" is heard with a table whose phrases are a and Ab
C5_Witness ==
    \E d \in Callers :
        /\ call[d].pc = "done"
        /\ Len(call[d].table0) = 2
        /\ call[d].response = [status |-> no_commands_matched, heard |-> <<"b">>]

\* C6: validate_config raises for every raw configuration that lacks one of
\* the three keys, has a phrase with an empty angle list, or has an angle below
\* 0 or above 180; for every other one it returns the speech-service name and
\* the servo name as required dependencies, and no optional ones.
C6_ValidateConfig ==
    validation # NoValidation =>
        LET table == cfgIn.commands
            bad ==
                \/ \E key \in {"speech_service", "servo", "commands"} :
                      key \notin cfgIn.fields
                \/ \E i \in 1..Len(table) : Len(table[i].angles) = 0
                \/ \E i \in 1..Len(table) : \E k \in 1..Len(table[i].angles) :
                      table[i].angles[k] < 0 \/ table[i].angles[k] > 1800
        IN  /\ bad => ~validation.ok /\ validation.error # ""
            /\ ~bad => validation = [ok |-> TRUE, error |-> "",
                                     required |-> <<cfgIn.speech_service, cfgIn.servo>>,
                                     optional |-> <<>>]

\* all keys present, the second angle of the second phrase is 180.9
C6_Witness ==
    /\ validation # NoValidation
    /\ ~validation.ok
    /\ cfgIn.fields = ConfigKeys
    /\ cfgIn.commands = <<[phrase |-> <<"a">>, angles |-> <<1800>>],
                          [phrase |-> <<>>, angles |-> <<9, 1809>>]>>

\* C7: the held command table maps every phrase to a non-empty sequence of
\* integers in 0..180, after construction and after every reconfiguration with
\* a configuration validate_config accepted.
C7_TableInvariant ==
    \A i \in 1..Len(commands) :
        /\ Len(commands[i].angles) > 0
        /\ \A k \in 1..Len(commands[i].angles) : commands[i].angles[k] \in 0..180

\* reconfigured with raw angles 180.0 and 0.9, 179.9
C7_Witness ==
    /\ nReconf > 0
    /\ cfgIn.commands = <<[phrase |-> <<>>, angles |-> <<1800>>],
                          [phrase |-> <<"a">>, angles |-> <<9, 1799>>]>>
    /\ commands = <<[phrase |-> <<>>, angles |-> <<180>>],
                    [phrase |-> <<"a">>, angles |-> <<0, 179>>]>>

\* C8 as stated: after every reconfiguration that completes, the speech handle
\* and the servo handle are bound to the resources the current configuration
\* names.
C8_Original ==
    nReconf > 0 =>
        /\ speech_service = config.speech_service
        /\ servo = config.servo

\* C9: a request with the flag set calls get_commands exactly once, with
\* number 1, before anything else; the text that is matched and returned is the
\* first element of the returned list.
C9_OnePoll ==
    \A d \in Callers :
        LET c == call[d]
            IsPoll(e) == e.op = "get_commands"
            reply == c.commands_from_queue
        IN  /\ (c.listen /\ c.pc # "idle") =>
                  /\ Len(SelectSeq(c.trace, IsPoll)) = 1
                  /\ c.trace[1].op = "get_commands"
                  /\ c.trace[1].arg = 1
            /\ HeardSomething(c) =>
                  /\ c.heard_text = reply[1]
                  /\ \A i \in 1..Len(c.trace) :
                        c.trace[i].op = "move" => OccursIn(c.trace[i].phrase, reply[1])
                  /\ c.pc = "done" =>
                        /\ c.response.heard = reply[1]
                        /\ c.response.status = commands_heard
                              <=> ExpectedMatches(reply[1], c.table0) # <<>>

\* ["b", "aB"] is returned: "b" matches nothing, "aB" would have
C9_Witness ==
    \E d \in Callers :
        /\ call[d].pc = "done"
        /\ call[d].commands_from_queue = <<<<"b">>, <<"a", "B">>>>
        /\ call[d].table0 # <<>>
        /\ call[d].response = [status |-> no_commands_matched, heard |-> <<"b">>]

\* C10 as stated: every phrase of the table has been tested before the first
\* move of the dispatch is issued (no phrase is tested after a move).
C10_Original ==
    \A d \in Callers :
        \A i, j \in 1..Len(call[d].trace) :
            (call[d].trace[i].op = "move" /\ call[d].trace[j].op = "test") => j < i

\* the phrases tested among the first i steps of a trace, in order
TestedBefore(trace, i) ==
    LET IsTest(e) == e.op = "test"
        tests == SelectSeq(SubSeq(trace, 1, i), IsTest)
    IN  [n \in 1..Len(tests) |-> tests[n].phrase]

\* C10 as amended: the dispatch polls first; then the phrases are tested in
\* table order, and the moves of a matching phrase are issued right after its
\* own test: when a move is issued, exactly the phrases up to its own have been
\* tested.  A test calls no collaborator: the servo receives the moves only.
C10_TestThenMovePerPhrase ==
    \A d \in Callers :
        LET c == call[d]
            phrases == [n \in 1..Len(c.table0) |-> c.table0[n].phrase]
        IN  (c.listen /\ c.pc # "idle") =>
                /\ c.trace[1].op = "get_commands"
                /\ \A i \in 2..Len(c.trace) : c.trace[i].op # "get_commands"
                /\ \A i \in 1..Len(c.trace) :
                      LET t == TestedBefore(c.trace, i)
                      IN  /\ t = SubSeq(phrases, 1, Len(t))
                          /\ c.trace[i].op = "move" =>
                                /\ Len(t) > 0
                                /\ c.trace[i].phrase = t[Len(t)]
                          /\ c.trace[i].op = "test" => c.trace[i].on = ""
                /\ LogSince(d) = MovesOf(c.trace)

\* table {a: [10], Ab: [20, 30]}, "aB": Ab is tested after the move to 10
C10_Witness ==
    \E d \in Callers :
        /\ call[d].pc = "done"
        /\ [i \in 1..Len(call[d].trace) |-> call[d].trace[i].op] =
              <<"get_commands", "test", "move", "sleep", "test", "move", "sleep",
                "move", "sleep">>
        /\ LogSince(d) = <<10, 20, 30>>

\* C11 as stated: a reconfiguration while a dispatch is suspended does not
\* race with it: the dispatch never fails with a KeyError for a phrase it is
\* iterating, and there is one single table (the one held when its loop began,
\* or the one held now) from which all of its moves come, in that table's order.
C11_Original ==
    \A d \in Callers :
        LET c == call[d]
            text == c.commands_from_queue[1]
        IN  HeardSomething(c) =>
                /\ c.error # "KeyError"
                /\ \E table \in {c.table0, commands} :
                      IsPrefix(MovesOf(c.trace), ExpectedMoves(text, table))

\* the number of delays among the steps i+1 .. j-1 of a trace
DelaysBetween(trace, i, j) ==
    Cardinality({n \in (i + 1)..(j - 1) : trace[n].op = "sleep"})

\* C13: within one dispatch every move that returned is followed at once by
\* one delay of 1 time unit, and a delay happens nowhere else: between two
\* consecutive moves exactly one delay elapses, and when the outcome is returned
\* the delay after the last move has elapsed.  A move that failed is followed
\* by nothing.
C13_OneDelayAfterEachMove ==
    \A d \in Callers :
        LET c == call[d]
            n == Len(c.trace)
        IN  /\ \A i \in 1..n :
                  /\ (c.trace[i].op = "move" /\ i < n) =>
                        /\ c.trace[i + 1].op = "sleep"
                        /\ c.trace[i + 1].arg = 1
                  /\ c.trace[i].op = "sleep" =>
                        /\ i > 1
                        /\ c.trace[i - 1].op = "move"
            /\ \A i, j \in 1..n :
                  (/\ i < j
                   /\ c.trace[i].op = "move"
                   /\ c.trace[j].op = "move"
                   /\ \A m \in (i + 1)..(j - 1) : c.trace[m].op # "move")
                      => DelaysBetween(c.trace, i, j) = 1
            /\ (c.pc = "done" /\ n > 0) => c.trace[n].op # "move"
            /\ c.pc \in Looping => c.trace[n].op = "move"
            /\ c.failed_at > 0 => c.trace[n].op = "move"

\* four moves of two phrases, four delays, the last one before the return
C13_Witness ==
    \E d \in Callers :
        LET c == call[d]
        IN  /\ c.pc = "done"
            /\ MovesOf(c.trace) = <<0, 179, 0, 179>>
            /\ c.response.status = commands_heard
            /\ DelaysBetween(c.trace, 0, Len(c.trace) + 1) = 4
            /\ c.trace[Len(c.trace)].op = "sleep"

\* C15: the range check is made on the raw value and the table holds the raw
\* value truncated, not rounded: the held table has the phrases of the
\* configuration it was built from, every raw value v of that configuration
\* satisfies 0 <= v <= 180 and is held as floor(v); a configuration with a raw
\* value above 180 (180.9) is refused by validate_config and is never held.
C15_TruncatedNotRounded ==
    /\ Len(commands) = Len(config.commands)
    /\ \A i \in 1..Len(commands) :
          /\ commands[i].phrase = config.commands[i].phrase
          /\ Len(commands[i].angles) = Len(config.commands[i].angles)
          /\ \A k \in 1..Len(commands[i].angles) :
                LET raw == config.commands[i].angles[k]
                    held == commands[i].angles[k]
                IN  /\ 0 <= raw /\ raw <= 1800
                    /\ held * 10 <= raw /\ raw < held * 10 + 10
    /\ (/\ validation # NoValidation
        /\ \E i \in 1..Len(cfgIn.commands) :
              \E k \in 1..Len(cfgIn.commands[i].angles) :
                  cfgIn.commands[i].angles[k] > 1800
        /\ cfgIn.fields = ConfigKeys)
          => /\ validation = Raise("command angles must be integers between 0 and 180")
                \/ validation = Raise("command angles cannot be empty")
             /\ config # cfgIn

\* 179.9 and 0.9 are held as 179 and 0
C15_Witness ==
    /\ nReconf > 0
    /\ \E i \in 1..Len(commands) :
          /\ config.commands[i].angles = <<1799, 9>>
          /\ commands[i].angles = <<179, 0>>

\* a configuration with 180.9 has been validated: refused
C15_WitnessRejected ==
    /\ validation # NoValidation
    /\ cfgIn.fields = ConfigKeys
    /\ cfgIn.commands = <<[phrase |-> <<"a">>, angles |-> <<1809>>]>>
    /\ ~validation.ok

\* the step in which the awaited move of caller d raises
MoveFails(d) == call[d].pc = "await_move" /\ call'[d].pc = "failed"

\* the next step of caller d after a failed move: a new request, begun afresh
BeginsAfresh(d) ==
    /\ call'[d].pc \in {"await_speech", "done"}
    /\ call'[d].heard_text = <<>>
    /\ call'[d].keys = <<>>
    /\ call'[d].k = 0
    /\ call'[d].angles = <<>>
    /\ call'[d].a = 0
    /\ call'[d].commands_heard = <<>>
    /\ call'[d].failed_at = 0
    /\ call'[d].error = ""
    /\ call'[d].log0 = Len(actuatorLog)
    /\ call'[d].listen =>
          /\ call'[d].pc = "await_speech"
          /\ call'[d].trace = <<Event("get_commands", <<>>, 1, speech_service)>>
    /\ actuatorLog' = actuatorLog

\* C16: a move that fails changes neither the command table nor a handle and
\* issues nothing more; after it the service accepts the next request, which
\* begins afresh (it polls, and nothing of the failed sequence is retried or
\* resumed) and, like every dispatch, sequences from the first matching phrase
\* of the table.
C16_FailureLeavesServiceUsable ==
    /\ [][\A d \in Callers :
             /\ MoveFails(d) => UNCHANGED <<svcVars, actuatorLog>>
             /\ (call[d].failed_at > 0 /\ call'[d] # call[d]) => BeginsAfresh(d)]_vars
    /\ [](\A d \in Sequential :
             /\ (call[d].failed_at > 0 /\ nCalls < MaxCalls) =>
                   /\ ENABLED DoCommand(d, TRUE)
                   /\ speech_service # Unset /\ servo # Unset
             /\ (HeardSomething(call[d]) /\ ~call[d].raced) =>
                   IsPrefix(LogSince(d),
                            ExpectedMoves(call[d].heard_text, call[d].table0)))

\* the move to 20 failed; the next dispatch moved to 10, 20 and 30 and returned
C16_Witness ==
    \E d \in Callers :
        /\ call[d].pc = "done"
        /\ call[d].log0 = 2
        /\ call[d].table0 = Held1
        /\ [i \in 1..Len(actuatorLog) |-> actuatorLog[i].angle] = <<10, 20, 10, 20, 30>>
        /\ call[d].response.status = commands_heard

\* C17 as stated: every phrase of the table held after a validated
\* reconfiguration is a non-empty string.
C17_Original ==
    nReconf > 0 => \A i \in 1..Len(commands) : commands[i].phrase # <<>>

\* the step in which a request without the flag arrives from caller d
ArrivesWithoutFlag(d) ==
    /\ call[d].pc \notin InFlight
    /\ call'[d] # call[d]
    /\ ~call'[d].listen

\* C19: a request whose listen_for_command flag is absent or falsy starts no
\* dispatch: it is over at once, it has called neither get_commands nor move,
\* it returns None (a response with no status), and it leaves the command table
\* and both handles as they were.
C19_NoFlagNoDispatch ==
    /\ [](\A d \in Callers :
             (call[d].pc # "idle" /\ ~call[d].listen) =>
                 /\ call[d].pc = "done"
                 /\ call[d].trace = <<>>
                 /\ call[d].commands_from_queue = <<>>
                 /\ \A i \in (call[d].log0 + 1)..Len(actuatorLog) :
                       actuatorLog[i].caller # d
                 /\ call[d].response = PyNoneResponse
                 /\ "status" \notin DOMAIN call[d].response)
    /\ [][\A d \in Callers :
             ArrivesWithoutFlag(d) => UNCHANGED <<svcVars, actuatorLog>>]_vars

\* after a dispatch that moved the servo, a request without the flag returned
C19_Witness ==
    \E d \in Callers :
        /\ call[d].pc = "done"
        /\ ~call[d].listen
        /\ call[d].response = PyNoneResponse
        /\ commands # <<>>
        /\ speech_service # Unset
        /\ servo # Unset
        /\ actuatorLog # <<>>
        /\ call[d].log0 = Len(actuatorLog)

\* the angles the servo received from the current call of caller d
OwnMoves(d) ==
    LET since == SubSeq(actuatorLog, call[d].log0 + 1, Len(actuatorLog))
        IsOwn(m) == m.caller = d
        own == SelectSeq(since, IsOwn)
    IN  [i \in 1..Len(own) |-> own[i].angle]

\* C12: nothing excludes one dispatch from the servo while another is inside
\* its sequence: whenever a call is suspended inside its loop, any other
\* suspended call can take its next step (its speech reply, its move reply, the
\* end of its delay and with it its next move); the servo receives the moves of
\* each call in the call's own order, interleaved with those of the others.
C12_NoMutualExclusion ==
    /\ \A d \in Callers : \A e \in Callers \ {d} :
          call[d].pc \in Looping =>
              /\ call[e].pc = "sleep" => ENABLED SleepDone(e)
              /\ call[e].pc = "await_move" => ENABLED MoveReply(e, TRUE)
              /\ call[e].pc = "await_speech" =>
                    \A reply \in ConcurrentReplies : ENABLED SpeechReply(e, reply)
    /\ \A d \in Callers :
          call[d].pc # "idle" => OwnMoves(d) = MovesOf(call[d].trace)

\* a move of one call lies between two consecutive moves of the other call
C12_Witness ==
    \E d \in Callers : \E e \in Callers \ {d} :
        \E i \in 1..(Len(actuatorLog) - 2) :
            /\ i > call[d].log0
            /\ i + 1 > call[e].log0
            /\ actuatorLog[i].caller = d
            /\ actuatorLog[i + 1].caller = e
            /\ actuatorLog[i + 2].caller = d

\* C14: every angle passed to servo.move, by whichever call and whatever
\* reconfigurations and other calls came in between, is an integer number of
\* degrees from 0 to 180.
C14_MovesInRange ==
    /\ \A i \in 1..Len(actuatorLog) : actuatorLog[i].angle \in 0..180
    /\ \A d \in Callers : \A i \in 1..Len(call[d].trace) :
          call[d].trace[i].op = "move" => call[d].trace[i].arg \in 0..180

\* both callers have moved the servo, one of them to 180 and, after a
\* reconfiguration, the other to 0 and 179
C14_Witness ==
    /\ nReconf > 0
    /\ \E i, j, k \in 1..Len(actuatorLog) :
          /\ i < j /\ j < k
          /\ actuatorLog[i].angle = 180
          /\ actuatorLog[j].angle = 0
          /\ actuatorLog[k].angle = 179
          /\ actuatorLog[i].caller # actuatorLog[j].caller

\* C18: with collaborators that answer, every call that is suspended returns
\* in the end, with an outcome or with the failure.  Its loop visits each
\* matching phrase of the table at most once and in table order, and (the
\* table not being replaced meanwhile) it issues at most as many moves as the
\* matching phrases have angles; it stops before that only when a move failed.
C18_DispatchTerminates ==
    /\ \A d \in Sequential :
          (call[d].pc \in InFlight) ~> (call[d].pc \in {"done", "failed"})
    /\ [](\A d \in Sequential :
             LET c == call[d]
                 text == c.commands_from_queue[1]
             IN  /\ c.pc = "done" => "pending" \notin DOMAIN c.response
                 /\ c.pc = "failed" => c.error # "" /\ c.response = NoResponse
                 /\ HeardSomething(c) =>
                       IsPrefix(c.commands_heard, ExpectedMatches(text, c.table0))
                 /\ (HeardSomething(c) /\ ~c.raced) =>
                       /\ Len(MovesOf(c.trace)) <= Len(ExpectedMoves(text, c.table0))
                       /\ (c.pc = "failed" /\ c.error = "ActuatorError") =>
                             c.trace[Len(c.trace)].op = "move"
                       /\ c.pc = "done" =>
                             Len(MovesOf(c.trace)) = Len(ExpectedMoves(text, c.table0)))

\* a dispatch of four moves has run to its end and returned
C18_Witness ==
    \E d \in Sequential :
        /\ call[d].pc = "done"
        /\ call[d].listen
        /\ Len(MovesOf(call[d].trace)) = 4
        /\ call[d].commands_heard = <<<<"A", "b">>, <<"a">>>>
        /\ "status" \in DOMAIN call[d].response

====
